---- MODULE Spec2Model ----
(***************************************************************************)
(* Roccat Vulcan 100/120 HID driver (drivers/hid/hid-roccat-vulcan.c).     *)
(*                                                                         *)
(* The driver keeps one vulcan_drvdata per attached hid_device, decodes    *)
(* 5-byte raw reports against the static table vulcan_key_map and          *)
(* configures every logical input device the HID core creates for the      *)
(* physical device.  The HID core (probe/remove dispatch, hid_hw_start,    *)
(* input_event, input_sync) is the environment; its calls into the driver  *)
(* are the actions of this module.                                         *)
(***************************************************************************)
EXTENDS Integers, Sequences, FiniteSets, TLC

VARIABLES
    pc,        \* per hid_device: "unbound", "hw_start" (inside hid_hw_start), "bound"
    drvdata,   \* per hid_device: the vulcan_drvdata record, or NoDrvdata
    inputs,    \* per hid_device: the logical input devices configured so far
    last,      \* the most recent driver callback: arguments, result, outbound calls
    delivered, \* per hid_device and observed key code: value of the latest input_event
    oops       \* TRUE once a callback has faulted in the kernel

vars == <<pc, drvdata, inputs, last, delivered, oops>>

(***************************************************************************)
(* Bounds of the model.                                                    *)
(***************************************************************************)
MaxInputs == 2      \* logical input devices one physical device exposes
MaxLen == 6         \* longest raw report delivered

(***************************************************************************)
(* Program constants.                                                      *)
(***************************************************************************)
VULCAN_SPECIAL_KEY_SEQUENCE_LENGTH == 5

EV_KEY == 1
KEY_A == 30
KEY_NEXTSONG == 163
KEY_PLAYPAUSE == 164
KEY_PREVIOUSSONG == 165
KEY_STOPCD == 166
KEY_FN == 464
KEY_FN_F1 == 466
KEY_FN_F2 == 467
KEY_FN_F3 == 468
KEY_FN_F4 == 469

HID_UP_GENDESK == 65536
HID_GD_MOUSE == 65538
HID_GD_KEYBOARD == 65542
HID_GD_KEYPAD == 65543
HID_GD_SYSTEM_CONTROL == 65664
HID_CP_CONSUMER_CONTROL == 786433

ENOMEM == 12
EIO == 5
ENODEV == 19

NULL == "NULL"

\* the NULL pointer to a struct input_dev
NullInput == <<NULL, 0>>

\* no vulcan_drvdata allocated for the device
NoDrvdata == [allocated |-> FALSE, input |-> NullInput]

\* struct vulcan_drvdata as devm_kzalloc returns it: zero-filled
vulcan_drvdata == [allocated |-> TRUE, input |-> NullInput]

(***************************************************************************)
(* The Sequence Table.                                                     *)
(***************************************************************************)
MEDIA_KEY_PRESS(which, id) ==
    [code |-> which, value |-> 1, sequence |-> <<3, 0, 11, id, 0>>]

\* MEDIA_KEY_RELEASE with the pattern of MEDIA_KEY_PRESS
MEDIA_KEY_RELEASE_same_pattern(which, id) ==
    [code |-> which, value |-> 0, sequence |-> <<3, 0, 11, id, 0>>]

MEDIA_KEY_RELEASE(which, id) ==
    [code |-> which, value |-> 0, sequence |-> <<3, 0, 11, id, 1>>]

\* FX_KEY_PRESS with the prefix byte of the media keys (0x0b for 0xfb)
FX_KEY_PRESS_media_prefix(which, id) ==
    [code |-> which, value |-> 1, sequence |-> <<3, 0, 11, id, 1>>]

FX_KEY_PRESS(which, id) ==
    [code |-> which, value |-> 1, sequence |-> <<3, 0, 251, id, 1>>]

\* FX_KEY_RELEASE that reports the key as pressed
FX_KEY_RELEASE_pressed(which, id) ==
    [code |-> which, value |-> 1, sequence |-> <<3, 0, 251, id, 0>>]

FX_KEY_RELEASE(which, id) ==
    [code |-> which, value |-> 0, sequence |-> <<3, 0, 251, id, 0>>]

\* { .code = 0 }: the remaining members are zero-initialised
Sentinel == [code |-> 0, value |-> 0, sequence |-> <<0, 0, 0, 0, 0>>]

vulcan_key_map == <<
    MEDIA_KEY_PRESS(KEY_PREVIOUSSONG, 33),
    MEDIA_KEY_RELEASE(KEY_PREVIOUSSONG, 33),
    MEDIA_KEY_PRESS(KEY_NEXTSONG, 34),
    MEDIA_KEY_RELEASE(KEY_NEXTSONG, 34),
    MEDIA_KEY_PRESS(KEY_PLAYPAUSE, 35),
    MEDIA_KEY_RELEASE(KEY_PLAYPAUSE, 35),
    MEDIA_KEY_PRESS(KEY_STOPCD, 36),
    MEDIA_KEY_RELEASE(KEY_STOPCD, 36),
    FX_KEY_PRESS(KEY_FN_F1, 16),
    FX_KEY_RELEASE(KEY_FN_F1, 16),
    FX_KEY_PRESS(KEY_FN_F2, 24),
    FX_KEY_RELEASE(KEY_FN_F2, 24),
    FX_KEY_PRESS(KEY_FN_F3, 33),
    FX_KEY_RELEASE(KEY_FN_F3, 33),
    FX_KEY_PRESS(KEY_FN_F4, 32),
    FX_KEY_RELEASE(KEY_FN_F4, 32),
    FX_KEY_PRESS(KEY_FN, 119),
    FX_KEY_RELEASE(KEY_FN, 119),
    Sentinel >>

\* indices of the entries before the first entry whose code is 0
RECURSIVE ScanLimit(_)
ScanLimit(i) ==
    IF vulcan_key_map[i].code = 0 THEN i - 1 ELSE ScanLimit(i + 1)

RealEntries == 1..ScanLimit(1)

(***************************************************************************)
(* vulcan_raw_event                                                        *)
(***************************************************************************)
\* memcmp over n-1 bytes: the last byte is never compared
RECURSIVE memcmp_short(_, _, _)
memcmp_short(a, b, n) ==
    IF n <= 1 THEN 0
    ELSE IF a[1] # b[1] THEN a[1] - b[1]
    ELSE memcmp_short(Tail(a), Tail(b), n - 1)

\* memcmp(a, b, n): 0 iff the first n bytes agree, else the difference of the
\* first bytes that differ
RECURSIVE memcmp(_, _, _)
memcmp(a, b, n) ==
    IF n = 0 THEN 0
    ELSE IF a[1] # b[1] THEN a[1] - b[1]
    ELSE memcmp(Tail(a), Tail(b), n - 1)

\* the length test that lets short reports through
SizeMismatch_long_only(size) == size > VULCAN_SPECIAL_KEY_SEQUENCE_LENGTH

\* if (size != VULCAN_SPECIAL_KEY_SEQUENCE_LENGTH) return 0;
SizeMismatch(size) == size # VULCAN_SPECIAL_KEY_SEQUENCE_LENGTH

\* an event that always reports the key as pressed
input_event_pressed(dev, type, code, value) ==
    [fn |-> "input_event", dev |-> dev, type |-> type, code |-> code, value |-> 1]

\* the outbound call input_event(dev, type, code, value)
input_event(dev, type, code, value) ==
    [fn |-> "input_event", dev |-> dev, type |-> type, code |-> code, value |-> value]

\* the outbound call input_sync(dev)
input_sync(dev) ==
    [fn |-> "input_sync", dev |-> dev, type |-> 0, code |-> 0, value |-> 0]

\* a match that emits the event but never flushes it
Deliver_no_sync(sink, e) ==
    << input_event(sink, EV_KEY, e.code, e.value) >>

\* body of the if inside the loop: input_event, input_sync
Deliver(sink, e) ==
    << input_event(sink, EV_KEY, e.code, e.value), input_sync(sink) >>

\* a loop bounded by the array size: the sentinel entry is compared as well
RECURSIVE Scan_array_size(_, _, _)
Scan_array_size(data, size, i) ==
    IF i > Len(vulcan_key_map) THEN 0
    ELSE IF memcmp(data, vulcan_key_map[i].sequence, size) = 0 THEN i
    ELSE Scan_array_size(data, size, i + 1)

\* the for loop: index of the first entry before the sentinel whose sequence
\* equals the first size bytes of data, or 0 when the scan reaches the sentinel
RECURSIVE Scan(_, _, _)
Scan(data, size, i) ==
    IF vulcan_key_map[i].code = 0 THEN 0
    ELSE IF memcmp(data, vulcan_key_map[i].sequence, size) = 0 THEN i
    ELSE Scan(data, size, i + 1)

\* a handler that clears the report buffer as it reads it
RawEventMemory_consumed(dd, data) ==
    [drvdata |-> dd, data |-> [k \in 1..Len(data) |-> 0]]

\* *drvdata and the report buffer after a call of vulcan_raw_event: the function
\* only reads drvdata->input and passes data to memcmp, it stores to neither
RawEventMemory(dd, data) ==
    [drvdata |-> dd, data |-> data]

\* Result of one call of vulcan_raw_event on a device whose drvdata->input is
\* sink.  fault is TRUE when the call passes a NULL input_dev to input_event.
vulcan_raw_event(sink, data, size) ==
    IF SizeMismatch(size) THEN [ret |-> 0, calls |-> << >>, fault |-> FALSE]
    ELSE LET i == Scan(data, size, 1) IN
         IF i = 0 THEN [ret |-> 0, calls |-> << >>, fault |-> FALSE]
         ELSE [ret |-> 1,
               calls |-> Deliver(sink, vulcan_key_map[i]),
               fault |-> (sink = NullInput)]

(***************************************************************************)
(* vulcan_input_configured                                                 *)
(***************************************************************************)
\* the switch on hi->application; NULL when no case applies
Suffix(application) ==
    CASE application = HID_GD_KEYBOARD -> "Main Keyboard"
      [] application = HID_GD_MOUSE    -> "Extra Keyboard"
      [] application = HID_GD_KEYPAD   -> "Misc Device"
      [] application = HID_UP_GENDESK  -> "LED Device"
      [] OTHER                         -> NULL

\* "%s%s": the separating space is missing
devm_kasprintf_nospace(ok, a, b) ==
    IF ok THEN a \o b ELSE NULL

\* devm_kasprintf(dev, GFP_KERNEL, "%s %s", a, b); NULL when the allocation fails
devm_kasprintf(ok, a, b) ==
    IF ok THEN a \o " " \o b ELSE NULL

\* the name is assigned without testing the allocation
SetName_unchecked(old, name) == name

\* if (name) hi->input->name = name;
SetName(old, name) == IF name # NULL THEN name ELSE old

\* the sink is stored only while none is set: the first logical device stays
StoreSink_first(old, new) == IF old = NullInput THEN new ELSE old

\* drvdata->input = hi->input;
StoreSink(old, new) == new

\* the five key codes and the four media key codes
ProfileKeys_and_media ==
    {KEY_FN_F1, KEY_FN_F2, KEY_FN_F3, KEY_FN_F4, KEY_FN,
     KEY_PREVIOUSSONG, KEY_NEXTSONG, KEY_PLAYPAUSE, KEY_STOPCD}

\* the five set_bit calls on hi->input->keybit
ProfileKeys == {KEY_FN_F1, KEY_FN_F2, KEY_FN_F3, KEY_FN_F4, KEY_FN}

\* Result of one call of vulcan_input_configured(hdev, hi): hi is the hid_input
\* [application, input], ptr the address of hi->input, ok whether
\* devm_kasprintf can allocate.
vulcan_input_configured(hdev_name, hi, ptr, ok) ==
    LET suffix == Suffix(hi.application)
        name   == IF suffix # NULL
                  THEN SetName(hi.input.name, devm_kasprintf(ok, hdev_name, suffix))
                  ELSE hi.input.name
    IN [ret   |-> 0,
        sink  |-> ptr,
        hi    |-> [application |-> hi.application,
                   input |-> [name       |-> name,
                              keybit     |-> hi.input.keybit \cup ProfileKeys,
                              keycodemax |-> KEY_FN_F4]]]

(***************************************************************************)
(* vulcan_probe                                                            *)
(***************************************************************************)
\* a probe that does not test drvdata->input
vulcan_probe_exit_unchecked(retval, input) ==
    [ret |-> retval, stop |-> FALSE]

\* vulcan_probe from the return of hid_hw_start (retval) to its end: the value
\* returned and whether hid_hw_stop is called
vulcan_probe_exit(retval, input) ==
    IF retval # 0 THEN [ret |-> retval, stop |-> FALSE]
    ELSE IF input = NullInput THEN [ret |-> -ENOMEM, stop |-> TRUE]
    ELSE [ret |-> 0, stop |-> FALSE]

(***************************************************************************)
(* The devices and what the HID core hands to the driver.                  *)
(***************************************************************************)
\* vulcan_devices: one hid_device per supported product
Devices == {"Vulcan100", "Vulcan120"}

\* hdev->name
HdevName(hdev) == "ROCCAT " \o hdev

\* every device reads one drvdata object
hid_get_drvdata_static(hdev) == "Vulcan100"

\* hid_get_drvdata(hdev): the object hid_set_drvdata stored for this hdev
hid_get_drvdata(hdev) == hdev

\* address of the k-th logical input device of hdev
InputPtr(hdev, k) == <<hdev, k>>

Patterns == { vulcan_key_map[i].sequence : i \in RealEntries }

Zeros(n) == [i \in 1..n |-> 0]

\* The raw reports delivered: every table sequence, the all-zero report, table
\* sequences with one byte replaced, media ids under the FX prefix and FX ids
\* under the media prefix, every proper prefix of a table sequence, and table
\* sequences followed by further bytes up to MaxLen.
Reports ==
    Patterns
    \cup { Zeros(VULCAN_SPECIAL_KEY_SEQUENCE_LENGTH) }
    \cup { [p EXCEPT ![k] = 2] : p \in Patterns, k \in 1..VULCAN_SPECIAL_KEY_SEQUENCE_LENGTH }
    \cup { <<3, 0, pre, p[4], b>> : pre \in {11, 251}, p \in Patterns, b \in {0, 1} }
    \cup { SubSeq(p, 1, n) : p \in Patterns, n \in 0..(VULCAN_SPECIAL_KEY_SEQUENCE_LENGTH - 1) }
    \cup { p \o Zeros(n) : p \in Patterns, n \in 1..(MaxLen - VULCAN_SPECIAL_KEY_SEQUENCE_LENGTH) }

\* a few reports for the specifications that explore the device life cycle
FewReports ==
    { vulcan_key_map[1].sequence, vulcan_key_map[14].sequence, <<1, 2, 3>> }

MediaKeys == {KEY_PREVIOUSSONG, KEY_NEXTSONG, KEY_PLAYPAUSE, KEY_STOPCD}

Applications ==
    {HID_GD_KEYBOARD, HID_GD_MOUSE, HID_GD_KEYPAD, HID_UP_GENDESK,
     HID_GD_SYSTEM_CONTROL, HID_CP_CONSUMER_CONTROL}

\* capability sets the generic path may have declared before configuration
Keybits ==
    { {}, {KEY_A}, MediaKeys, {KEY_A, KEY_FN}, MediaKeys \cup ProfileKeys \cup {KEY_A} }

(***************************************************************************)
(* Environments: which devices attach, what logical input devices the HID  *)
(* core creates for them, which reports arrive, and whether reports are    *)
(* held back until attach has succeeded.                                   *)
(***************************************************************************)
\* two devices, life cycles interleaved
EnvDevices ==
    [devs |-> Devices, maxInputs |-> MaxInputs,
     apps |-> {HID_GD_KEYBOARD, HID_CP_CONSUMER_CONTROL}, keybits |-> {{KEY_A}},
     names |-> {"hid"}, reports |-> FewReports, early |-> FALSE, observed |-> {}]

\* one device, every report
EnvDecode ==
    [devs |-> {"Vulcan100"}, maxInputs |-> MaxInputs,
     apps |-> {HID_CP_CONSUMER_CONTROL}, keybits |-> {MediaKeys},
     names |-> {"hid"}, reports |-> Reports, early |-> FALSE, observed |-> {}]

\* one device with one logical input device of every kind
EnvConfig ==
    [devs |-> {"Vulcan120"}, maxInputs |-> 1,
     apps |-> Applications, keybits |-> Keybits,
     names |-> {"hid", "Device X"}, reports |-> FewReports, early |-> FALSE, observed |-> {}]

\* one device whose reports are delivered as soon as drvdata exists
EnvEarly ==
    [devs |-> {"Vulcan100"}, maxInputs |-> MaxInputs,
     apps |-> {HID_CP_CONSUMER_CONTROL}, keybits |-> {MediaKeys},
     names |-> {"hid"}, reports |-> Reports, early |-> TRUE, observed |-> {}]

\* one device whose sink is observed for three keys: the reports are the press
\* and release patterns of these keys and of a key that is not observed, and
\* reports that are not handled
EnvKeys ==
    [devs |-> {"Vulcan120"}, maxInputs |-> MaxInputs,
     apps |-> {HID_CP_CONSUMER_CONTROL}, keybits |-> {MediaKeys},
     names |-> {"hid"},
     reports |-> { vulcan_key_map[i].sequence : i \in {1, 2, 3, 4, 13, 14, 17, 18} }
                 \cup { <<3, 0, 11, 33, 2>>, <<3, 0, 251, 33>>, <<1, 2, 3>>,
                        <<3, 0, 251, 119, 1, 0>> },
     early |-> FALSE,
     observed |-> {KEY_PREVIOUSSONG, KEY_FN_F3, KEY_FN}]

(***************************************************************************)
(* State machine.                                                          *)
(***************************************************************************)
NoInput == [name |-> NULL, keybit |-> {}, keycodemax |-> 0]
NoHidInput == [application |-> 0, input |-> NoInput]

\* an outbound call that carries no event
Call(fn, hdev) == [fn |-> fn, dev |-> <<hdev, 0>>, type |-> 0, code |-> 0, value |-> 0]

\* an outbound call of vulcan_probe with the value it returned
CallRet(fn, hdev, retval) == [Call(fn, hdev) EXCEPT !.value = retval]

\* the record kept of one driver callback
Callback(op, hdev, data, ret, calls, before, after, ok) ==
    [op |-> op, hdev |-> hdev, data |-> data, size |-> Len(data), ret |-> ret,
     calls |-> calls, before |-> before, after |-> after, alloc_ok |-> ok,
     returned |-> TRUE, data_after |-> data]

\* a callback that has not returned: still running, or ended by a fault
Unreturned(cb) == [cb EXCEPT !.returned = FALSE]

\* no input_event seen yet for a key
NotReported == -1

NothingDelivered(E) == [c \in E.observed |-> NotReported]

\* The observed key values after the outbound calls of one callback: every
\* input_event call sets the value of its key code.
RECURSIVE Delivered(_, _)
Delivered(st, calls) ==
    IF calls = << >> THEN st
    ELSE LET c == Head(calls)
             nx == IF c.fn = "input_event" /\ c.code \in DOMAIN st
                   THEN [st EXCEPT ![c.code] = c.value]
                   ELSE st
         IN Delivered(nx, Tail(calls))

InitOf(E) ==
    /\ pc = [d \in E.devs |-> "unbound"]
    /\ drvdata = [d \in E.devs |-> NoDrvdata]
    /\ inputs = [d \in E.devs |-> << >>]
    /\ last = Callback("none", NULL, << >>, 0, << >>, NoHidInput, NoHidInput, TRUE)
    /\ delivered = [d \in E.devs |-> NothingDelivered(E)]
    /\ oops = FALSE

\* vulcan_probe up to the point where hid_hw_start begins to create the logical
\* input devices: devm_kzalloc, hid_set_drvdata, hid_parse.  A failure of either
\* returns at once; the device-managed drvdata is released with the failed probe.
ProbeStart(E, hdev) ==
    /\ ~oops
    /\ pc[hdev] = "unbound"
    /\ \E kzalloc_ok, parse_ok \in BOOLEAN :
         IF ~kzalloc_ok
         THEN /\ last' = Callback("probe", hdev, << >>, -ENOMEM, << >>,
                                  NoHidInput, NoHidInput, FALSE)
              /\ UNCHANGED <<pc, drvdata, inputs>>
         ELSE IF ~parse_ok
         THEN /\ last' = Callback("probe", hdev, << >>, -EIO,
                                  << CallRet("hid_parse", hdev, -EIO) >>,
                                  NoHidInput, NoHidInput, TRUE)
              /\ drvdata' = [drvdata EXCEPT ![hid_get_drvdata(hdev)] = NoDrvdata]
              /\ UNCHANGED <<pc, inputs>>
         ELSE /\ last' = Unreturned(Callback("probe", hdev, << >>, 0,
                                  << Call("hid_parse", hdev), Call("hid_hw_start", hdev) >>,
                                  NoHidInput, NoHidInput, TRUE))
              /\ drvdata' = [drvdata EXCEPT ![hid_get_drvdata(hdev)] = vulcan_drvdata]
              /\ pc' = [pc EXCEPT ![hdev] = "hw_start"]
              /\ UNCHANGED inputs
    /\ UNCHANGED <<delivered, oops>>

\* Inside hid_hw_start the HID core creates the next logical input device of
\* hdev and calls vulcan_input_configured on it.
InputConfigured(E, hdev) ==
    /\ ~oops
    /\ pc[hdev] = "hw_start"
    /\ Len(inputs[hdev]) < E.maxInputs
    /\ \E app \in E.apps, kb \in E.keybits, nm \in E.names, ok \in BOOLEAN :
         LET k   == Len(inputs[hdev]) + 1
             hi  == [application |-> app,
                     input |-> [name |-> nm, keybit |-> kb, keycodemax |-> 0]]
             r   == vulcan_input_configured(HdevName(hdev), hi, InputPtr(hdev, k), ok)
         IN /\ drvdata' = [drvdata EXCEPT ![hid_get_drvdata(hdev)].input =
                                                   StoreSink(@, r.sink)]
            /\ inputs' = [inputs EXCEPT ![hdev] = Append(@, r.hi)]
            /\ last' = Callback("input_configured", hdev, << >>, r.ret, << >>,
                                hi, r.hi, ok)
    /\ UNCHANGED <<pc, delivered, oops>>

\* hid_hw_start returns and vulcan_probe runs to its end.
ProbeFinish(E, hdev) ==
    /\ ~oops
    /\ pc[hdev] = "hw_start"
    /\ \E retval \in {0, -ENODEV, -ENOMEM} :
         LET x == vulcan_probe_exit(retval, drvdata[hid_get_drvdata(hdev)].input)
         IN /\ last' = Callback("probe", hdev, << >>, x.ret,
                                << Call("hid_parse", hdev),
                                   CallRet("hid_hw_start", hdev, retval) >>
                                \o (IF x.stop THEN << Call("hid_hw_stop", hdev) >>
                                               ELSE << >>),
                                NoHidInput, NoHidInput, TRUE)
            /\ IF x.ret = 0
               THEN /\ pc' = [pc EXCEPT ![hdev] = "bound"]
                    /\ UNCHANGED <<drvdata, inputs>>
               ELSE /\ pc' = [pc EXCEPT ![hdev] = "unbound"]
                    /\ drvdata' = [drvdata EXCEPT ![hid_get_drvdata(hdev)] = NoDrvdata]
                    /\ inputs' = [inputs EXCEPT ![hdev] = << >>]
    /\ UNCHANGED <<delivered, oops>>

\* The HID core delivers a raw report of hdev to vulcan_raw_event.  Passing a
\* NULL input_dev to input_event is a NULL dereference: the kernel either oopses
\* inside the call, or the read succeeds (page zero mapped) and the call returns.
RawEvent(E, hdev) ==
    /\ ~oops
    /\ \/ pc[hdev] = "bound"
       \/ E.early /\ pc[hdev] = "hw_start"
    /\ \E data \in E.reports :
         LET dd == drvdata[hid_get_drvdata(hdev)]
             r  == vulcan_raw_event(dd.input, data, Len(data))
             m  == RawEventMemory(dd, data)
         IN /\ drvdata' = [drvdata EXCEPT ![hid_get_drvdata(hdev)] = m.drvdata]
            /\ \/ /\ last' = [Callback("raw_event", hdev, data, r.ret, r.calls,
                                        NoHidInput, NoHidInput, TRUE)
                                   EXCEPT !.data_after = m.data]
                  /\ delivered' = [delivered EXCEPT ![hdev] = Delivered(@, r.calls)]
                  /\ oops' = FALSE
               \/ /\ r.fault
                  /\ last' = Unreturned(Callback("raw_event", hdev, data, 0, << >>,
                                      NoHidInput, NoHidInput, TRUE))
                  /\ oops' = TRUE
                  /\ UNCHANGED delivered
    /\ UNCHANGED <<pc, inputs>>

\* vulcan_remove: hid_hw_stop; the HID core then destroys the logical input
\* devices and releases the device-managed drvdata.
Remove(E, hdev) ==
    /\ ~oops
    /\ pc[hdev] = "bound"
    /\ last' = Callback("remove", hdev, << >>, 0, << Call("hid_hw_stop", hdev) >>,
                        NoHidInput, NoHidInput, TRUE)
    /\ pc' = [pc EXCEPT ![hdev] = "unbound"]
    /\ drvdata' = [drvdata EXCEPT ![hid_get_drvdata(hdev)] = NoDrvdata]
    /\ inputs' = [inputs EXCEPT ![hdev] = << >>]
    /\ delivered' = [delivered EXCEPT ![hdev] = NothingDelivered(E)]
    /\ UNCHANGED oops

NextOf(E) ==
    \E hdev \in E.devs :
        \/ ProbeStart(E, hdev)
        \/ InputConfigured(E, hdev)
        \/ ProbeFinish(E, hdev)
        \/ RawEvent(E, hdev)
        \/ Remove(E, hdev)

\* two devices attach, are configured, report and detach in any interleaving
Init == InitOf(EnvDevices)
Next == NextOf(EnvDevices)
Spec == Init /\ [][Next]_vars

\* one device, every report of Reports
InitDecode == InitOf(EnvDecode)
NextDecode == NextOf(EnvDecode)
SpecDecode == InitDecode /\ [][NextDecode]_vars

\* one device, every kind of logical input device
InitConfig == InitOf(EnvConfig)
NextConfig == NextOf(EnvConfig)
SpecConfig == InitConfig /\ [][NextConfig]_vars

\* one device, reports delivered before attach has completed
InitEarly == InitOf(EnvEarly)
NextEarly == NextOf(EnvEarly)
SpecEarly == InitEarly /\ [][NextEarly]_vars

\* one device, the key values delivered to its sink observed
InitKeys == InitOf(EnvKeys)
NextKeys == NextOf(EnvKeys)
SpecKeys == InitKeys /\ [][NextKeys]_vars

(***************************************************************************)
(* Properties.                                                             *)
(***************************************************************************)
IsRawEvent == last.op = "raw_event" /\ last.returned
IsConfigured == last.op = "input_configured"

\* drvdata->input of the device of the most recent callback
SinkOfLast == drvdata[last.hdev].input

\* the input_event calls of the most recent callback
EmittedEvents ==
    { k \in 1..Len(last.calls) : last.calls[k].fn = "input_event" }

\* the most recent callback made no outbound call at all
NothingEmitted == last.calls = << >>

\* C1: a 5-byte raw report equal to the pattern of a table entry before the
\* sentinel is handled (returns 1) and emits exactly one key event, carrying
\* that entry's key code and value; 03 00 0b 21 00 gives (KEY_PREVIOUSSONG, 1)
\* and 03 00 0b 21 01 gives (KEY_PREVIOUSSONG, 0).
C1_PatternEmitsEntry ==
    IsRawEvent =>
        /\ \A i \in 1..18 :
             (last.size = 5 /\ last.data = vulcan_key_map[i].sequence) =>
                 /\ last.ret = 1
                 /\ Cardinality(EmittedEvents) = 1
                 /\ \A k \in EmittedEvents :
                      /\ last.calls[k].type = EV_KEY
                      /\ last.calls[k].code = vulcan_key_map[i].code
                      /\ last.calls[k].value = vulcan_key_map[i].value
        /\ last.data = <<3, 0, 11, 33, 0>> =>
             /\ last.ret = 1
             /\ \A k \in EmittedEvents :
                  last.calls[k].code = KEY_PREVIOUSSONG /\ last.calls[k].value = 1
        /\ last.data = <<3, 0, 11, 33, 1>> =>
             /\ last.ret = 1
             /\ \A k \in EmittedEvents :
                  last.calls[k].code = KEY_PREVIOUSSONG /\ last.calls[k].value = 0

\* a Release pattern was reported and handled
C1_Witness ==
    IsRawEvent /\ last.data = <<3, 0, 11, 33, 1>> /\ last.ret = 1
        /\ Cardinality(EmittedEvents) = 1

\* C2: a raw report whose length is not 5 is not handled (returns 0) and
\* causes no key event and no flush, whatever its bytes.
C2_WrongSizeNotHandled ==
    (IsRawEvent /\ last.size # 5) => (last.ret = 0 /\ NothingEmitted)

\* a report of 6 bytes that begins with a table pattern was returned unhandled
C2_Witness ==
    /\ IsRawEvent /\ last.size = 6 /\ last.ret = 0
    /\ SubSeq(last.data, 1, 5) = <<3, 0, 11, 33, 0>>

\* C3: a 5-byte raw report that is the pattern of no table entry before the
\* sentinel is not handled (returns 0) and causes no key event and no flush.
C3_UnknownPatternNotHandled ==
    (IsRawEvent /\ last.size = 5
        /\ \A i \in 1..18 : last.data # vulcan_key_map[i].sequence)
    => (last.ret = 0 /\ NothingEmitted)

\* a 5-byte report that differs from a table pattern in its last byte only
C3_Witness ==
    IsRawEvent /\ last.data = <<3, 0, 11, 33, 2>> /\ last.ret = 0

\* C4: a raw report that arrives while drvdata->input is still NULL is a
\* no-op: no fault, nothing emitted, return value 0.
C4_NoSinkNoOp ==
    (last.op = "raw_event" /\ SinkOfLast = NullInput) =>
        (~oops /\ last.returned /\ last.ret = 0 /\ NothingEmitted)

\* the key codes of the table entries before the sentinel
TableCodes == { vulcan_key_map[i].code : i \in RealEntries }

\* C5: after vulcan_input_configured every key code of the table is in the
\* keybit set of the configured logical input device, whatever was declared
\* before.
C5_TableCodesDeclared ==
    IsConfigured => TableCodes \subseteq last.after.input.keybit

\* C6: a raw report is handled (returns 1) iff the call made exactly the two
\* outbound calls input_event, input_sync, in this order, both on the sink of
\* the device; otherwise it returns 0 and made no outbound call.
C6_HandledIffOnePair ==
    IsRawEvent =>
        /\ last.ret \in {0, 1}
        /\ last.ret = 1 <=>
             /\ Len(last.calls) = 2
             /\ last.calls[1].fn = "input_event"
             /\ last.calls[2].fn = "input_sync"
             /\ last.calls[1].dev = SinkOfLast
             /\ last.calls[2].dev = SinkOfLast
        /\ last.ret = 0 <=> NothingEmitted

\* a handled report with its event and its flush
C6_Witness ==
    IsRawEvent /\ last.ret = 1 /\ Len(last.calls) = 2
        /\ last.data = <<3, 0, 251, 119, 1>>

\* the entries before the sentinel whose pattern equals the report
Matching(data) ==
    { i \in RealEntries : vulcan_key_map[i].sequence = data }

\* C7: no two table entries before the sentinel have the same pattern, so the
\* event of a handled report is the event of every entry the report equals.
C7_PatternsUnique ==
    /\ \A i, j \in RealEntries :
         i # j => vulcan_key_map[i].sequence # vulcan_key_map[j].sequence
    /\ (IsRawEvent /\ last.size = 5) =>
         /\ Cardinality(Matching(last.data)) <= 1
         /\ \A i \in Matching(last.data) : \A k \in EmittedEvents :
              /\ last.calls[k].code = vulcan_key_map[i].code
              /\ last.calls[k].value = vulcan_key_map[i].value

\* the scan went past the media entry with id 0x21 and matched the FX entry
\* with the same id
C7_Witness ==
    IsRawEvent /\ last.data = <<3, 0, 251, 33, 1>> /\ last.ret = 1
        /\ \A k \in EmittedEvents : last.calls[k].code = KEY_FN_F3

\* the fixed suffix of each recognized role, "" for the other roles
RoleSuffix(application) ==
    IF application = HID_GD_KEYBOARD THEN "Main Keyboard"
    ELSE IF application = HID_GD_MOUSE THEN "Extra Keyboard"
    ELSE IF application = HID_GD_KEYPAD THEN "Misc Device"
    ELSE IF application = HID_UP_GENDESK THEN "LED Device"
    ELSE ""

Recognized(application) == RoleSuffix(application) # ""

\* C8 as stated: for a recognized role the display name becomes
\* "<hdev->name> <suffix>"; for any other role it stays as it was.
C8_NameDerived ==
    IsConfigured =>
        IF Recognized(last.before.application)
        THEN last.after.input.name =
                 HdevName(last.hdev) \o " " \o RoleSuffix(last.before.application)
        ELSE last.after.input.name = last.before.input.name

\* C8 amended: for a recognized role the display name becomes
\* "<hdev->name> <suffix>" when the suffixed name can be allocated and stays as
\* it was when it cannot; for any other role it stays as it was.
C8_NameDerivedUnlessAllocFails ==
    IsConfigured =>
        IF Recognized(last.before.application) /\ last.alloc_ok
        THEN last.after.input.name =
                 HdevName(last.hdev) \o " " \o RoleSuffix(last.before.application)
        ELSE last.after.input.name = last.before.input.name

\* a keyboard whose name was another string before got the suffixed name
C8_Witness ==
    /\ IsConfigured /\ last.alloc_ok
    /\ last.before.application = HID_GD_KEYBOARD
    /\ last.before.input.name = "Device X"
    /\ last.after.input.name = "ROCCAT Vulcan120 Main Keyboard"

\* C9: when the suffixed name cannot be allocated, vulcan_input_configured
\* still returns 0, the name is the one the device had before, drvdata->input
\* is the configured device and the five key bits are declared.
C9_AllocFailureDegrades ==
    (IsConfigured /\ ~last.alloc_ok) =>
        /\ last.ret = 0
        /\ last.after.input.name = last.before.input.name
        /\ SinkOfLast = InputPtr(last.hdev, Len(inputs[last.hdev]))
        /\ inputs[last.hdev][Len(inputs[last.hdev])] = last.after
        /\ last.after.input.keybit =
               last.before.input.keybit
                   \cup {KEY_FN_F1, KEY_FN_F2, KEY_FN_F3, KEY_FN_F4, KEY_FN}

\* the allocation failed for a role that has a suffix
C9_Witness ==
    /\ IsConfigured /\ ~last.alloc_ok
    /\ last.before.application = HID_GD_MOUSE
    /\ last.ret = 0
    /\ SinkOfLast # NullInput

\* C10: a callback for one device changes nothing of any other device
\* (drvdata, logical input devices, attach state), and every outbound call of
\* a raw report of a device goes to a logical input device of that device,
\* the one its own drvdata->input names.
C10_Step ==
    /\ \A d \in Devices :
         d # last'.hdev =>
             /\ drvdata'[d] = drvdata[d]
             /\ inputs'[d] = inputs[d]
             /\ pc'[d] = pc[d]
    /\ last'.op = "raw_event" =>
         \A k \in 1..Len(last'.calls) :
             /\ last'.calls[k].dev = drvdata'[last'.hdev].input
             /\ last'.calls[k].dev # NullInput
             /\ last'.calls[k].dev[1] = last'.hdev

C10_DevicesIndependent == [][C10_Step]_vars

\* both devices are attached with a sink of their own and a report of the
\* second one was handled
C10_Witness ==
    /\ pc["Vulcan100"] = "bound" /\ pc["Vulcan120"] = "bound"
    /\ drvdata["Vulcan100"].input # drvdata["Vulcan120"].input
    /\ IsRawEvent /\ last.hdev = "Vulcan120" /\ last.ret = 1

\* what a report must produce, from the bytes alone: <<1, code, value>> for the
\* pattern of a table entry, <<0>> for every other report
Expected(data) ==
    IF Len(data) = 5 /\ \E i \in 1..18 : vulcan_key_map[i].sequence = data
    THEN LET i == CHOOSE j \in 1..18 : vulcan_key_map[j].sequence = data
         IN <<1, vulcan_key_map[i].code, vulcan_key_map[i].value>>
    ELSE <<0>>

\* what the most recent callback produced
Outcome(cb) ==
    IF cb.ret = 1 /\ Len(cb.calls) > 0
    THEN <<1, cb.calls[1].code, cb.calls[1].value>>
    ELSE <<cb.ret>>

\* C11: handling a raw report, matched or not, leaves drvdata (the sink), the
\* logical input devices (capability set, display name), the attach state and
\* the report buffer unchanged, and what a report produces depends on its bytes
\* only: it is the same as for the same report handled just before, and the
\* same in every state.
C11_Step ==
    (last'.op = "raw_event" /\ last'.returned) =>
        /\ drvdata' = drvdata
        /\ inputs' = inputs
        /\ pc' = pc
        /\ last'.data_after = last'.data
        /\ Outcome(last') = Expected(last'.data)
        /\ (last.op = "raw_event" /\ last.returned /\ last.data = last'.data) =>
               (last'.ret = last.ret /\ last'.calls = last.calls)

C11_DecoderPure == [][C11_Step]_vars

\* a handled report on a device whose sink, capability set and name are the
\* ones configuration left
C11_Witness ==
    /\ IsRawEvent /\ last.ret = 1 /\ last.data = <<3, 0, 251, 119, 0>>
    /\ last.data_after = last.data
    /\ Len(inputs[last.hdev]) = 2
    /\ SinkOfLast = InputPtr(last.hdev, 2)
    /\ inputs[last.hdev][2].input.name = "hid"
    /\ inputs[last.hdev][2].input.keybit = MediaKeys \cup ProfileKeys

\* C12: the table is chosen per device model, so a key that only one firmware
\* generation has (an FX/FN key, prefix 03 00 fb) is never decoded from the
\* same report to the same key code on both the Vulcan 100 and the Vulcan 120.
C12_Step ==
    ~ /\ last.op = "raw_event" /\ last'.op = "raw_event"
      /\ last.hdev # last'.hdev
      /\ last.data = last'.data
      /\ last.data[3] = 251
      /\ last.ret = 1 /\ last'.ret = 1
      /\ last.calls[1].code = last'.calls[1].code

C12_TablePerModel == [][C12_Step]_vars

\* press (1) or release (0) as the fifth byte of a pattern encodes it: media
\* keys (03 00 0b) 00 = press, FX/FN keys (03 00 fb) 01 = press
ActionOf(data) == IF data[3] = 11 THEN 1 - data[5] ELSE data[5]

\* the observed keys of the device of the callback cb
ObservedKeys(cb) == DOMAIN delivered[cb.hdev]

\* C13: after a raw report the value delivered to the sink for a key is 1 if
\* the report was the key's Press pattern, 0 if it was its Release pattern, and
\* what it was before for every other report (not handled, or of another key).
C13_Step ==
    (last'.op = "raw_event" /\ last'.returned) =>
        \A c \in ObservedKeys(last') :
            IF /\ last'.size = 5
               /\ \E i \in 1..18 : /\ vulcan_key_map[i].sequence = last'.data
                                   /\ vulcan_key_map[i].code = c
            THEN /\ last'.ret = 1
                 /\ delivered'[last'.hdev][c] = ActionOf(last'.data)
            ELSE delivered'[last'.hdev][c] = delivered[last'.hdev][c]

C13_KeyStateFollowsReports == [][C13_Step]_vars

\* one key pressed, one released, one never reported, after a report that was
\* not handled
C13_Witness ==
    /\ IsRawEvent /\ last.ret = 0 /\ last.data = <<3, 0, 11, 33, 2>>
    /\ delivered[last.hdev][KEY_FN_F3] = 1
    /\ delivered[last.hdev][KEY_PREVIOUSSONG] = 0
    /\ delivered[last.hdev][KEY_FN] = NotReported

\* C14: drvdata->input is the logical input device of the most recent
\* vulcan_input_configured of the device, and every event of a raw report goes
\* to it.
C14_SinkIsLastConfigured ==
    /\ \A d \in DOMAIN pc :
         (pc[d] # "unbound" /\ Len(inputs[d]) > 0) =>
             drvdata[d].input = InputPtr(d, Len(inputs[d]))
    /\ IsConfigured =>
         /\ SinkOfLast = InputPtr(last.hdev, Len(inputs[last.hdev]))
         /\ inputs[last.hdev][Len(inputs[last.hdev])] = last.after
    /\ IsRawEvent =>
         \A k \in 1..Len(last.calls) :
             last.calls[k].dev = InputPtr(last.hdev, Len(inputs[last.hdev]))

\* a media key event went to the keyboard configured second, not to the
\* consumer-control device configured first
C14_Witness ==
    /\ IsRawEvent /\ last.ret = 1
    /\ Len(inputs[last.hdev]) = 2
    /\ inputs[last.hdev][1].application = HID_CP_CONSUMER_CONTROL
    /\ inputs[last.hdev][2].application = HID_GD_KEYBOARD
    /\ last.calls[1].code = KEY_PREVIOUSSONG
    /\ last.calls[1].dev = InputPtr(last.hdev, 2)

\* C15: the 18 entries before the sentinel have nonzero key codes, the 19th
\* entry is the sentinel with key code 0, the scan never matches it: the 5-byte
\* all-zero report is not handled and emits nothing, and no event ever carries
\* key code 0.
C15_SentinelNeverMatched ==
    /\ \A i \in 1..18 : vulcan_key_map[i].code # 0
    /\ Len(vulcan_key_map) = 19
    /\ vulcan_key_map[19].code = 0
    /\ IsRawEvent =>
         /\ last.data = <<0, 0, 0, 0, 0>> => (last.ret = 0 /\ NothingEmitted)
         /\ \A k \in EmittedEvents : last.calls[k].code # 0

\* the all-zero report was returned unhandled
C15_Witness ==
    IsRawEvent /\ last.data = <<0, 0, 0, 0, 0>> /\ last.ret = 0 /\ NothingEmitted

\* the outbound calls of the callback cb to the function fn
CallsTo(cb, fn) == { k \in 1..Len(cb.calls) : cb.calls[k].fn = fn }

\* C16: vulcan_probe returns 0 only with drvdata->input set; when hid_hw_start
\* succeeded and no sink is set it returns an error and its last call is
\* hid_hw_stop; when hid_parse or hid_hw_start fails it returns that error and
\* does not call hid_hw_stop.  Every attached device has its sink set.
C16_Step ==
    /\ \A d \in DOMAIN pc :
         pc'[d] = "bound" => drvdata'[d].input # NullInput
    /\ (last'.op = "probe" /\ last'.returned) =>
         LET h == last'.hdev
             c == last'.calls
         IN /\ (last'.ret = 0) = (pc'[h] = "bound")
            /\ pc[h] = "unbound" =>
                 /\ last'.ret # 0
                 /\ CallsTo(last', "hid_hw_stop") = {}
                 /\ CallsTo(last', "hid_hw_start") = {}
                 /\ c # << >> => last'.ret = c[1].value
            /\ pc[h] = "hw_start" =>
                 /\ c[2].fn = "hid_hw_start"
                 /\ c[2].value # 0 =>
                      (last'.ret = c[2].value /\ CallsTo(last', "hid_hw_stop") = {})
                 /\ (c[2].value = 0 /\ drvdata[h].input = NullInput) =>
                      /\ last'.ret # 0
                      /\ CallsTo(last', "hid_hw_stop") = {3}
                      /\ Len(c) = 3
                 /\ (c[2].value = 0 /\ drvdata[h].input # NullInput) =>
                      /\ last'.ret = 0
                      /\ CallsTo(last', "hid_hw_stop") = {}
                      /\ drvdata'[h].input = drvdata[h].input

C16_ProbeNeedsSink == [][C16_Step]_vars

\* hid_hw_start succeeded without a logical input device: the probe failed and
\* stopped the transport
C16_Witness ==
    /\ last.op = "probe" /\ last.returned /\ last.ret = -ENOMEM
    /\ Len(last.calls) = 3
    /\ last.calls[2].value = 0
    /\ last.calls[3].fn = "hid_hw_stop"
    /\ pc[last.hdev] = "unbound"

\* the entries before the sentinel with key code c and value v
EntriesOf(c, v) ==
    { i \in 1..18 : vulcan_key_map[i].code = c /\ vulcan_key_map[i].value = v }

\* C17: every key code of the table has exactly one Press entry and exactly
\* one Release entry; their patterns agree in the first four bytes and differ
\* in the fifth (media keys 00 press / 01 release, FX/FN keys 01 press / 00
\* release); so the report that differs from a handled Press report in the
\* fifth byte only is the Release of the same key.
C17_PressReleasePaired ==
    /\ \A c \in { vulcan_key_map[i].code : i \in 1..18 } :
         /\ Cardinality(EntriesOf(c, 1)) = 1
         /\ Cardinality(EntriesOf(c, 0)) = 1
         /\ \A i \in EntriesOf(c, 1), j \in EntriesOf(c, 0) :
              LET p == vulcan_key_map[i].sequence
                  r == vulcan_key_map[j].sequence
              IN /\ SubSeq(p, 1, 4) = SubSeq(r, 1, 4)
                 /\ p[3] \in {11, 251}
                 /\ p[5] = (IF p[3] = 11 THEN 0 ELSE 1)
                 /\ r[5] = 1 - p[5]
    /\ \A i \in 1..18 : vulcan_key_map[i].value \in {0, 1}
    /\ (IsRawEvent /\ last.ret = 1) =>
         LET other == [last.data EXCEPT ![5] = 1 - @]
         IN /\ Expected(other)[1] = 1
            /\ Expected(other)[2] = last.calls[1].code
            /\ Expected(other)[3] = 1 - last.calls[1].value

\* a Press report of a media key and of an FX key share the id byte 0x21; the
\* FX one was handled as a press
C17_Witness ==
    IsRawEvent /\ last.ret = 1 /\ last.data = <<3, 0, 251, 33, 1>>
        /\ last.calls[1].value = 1

\* C18: vulcan_input_configured only adds key codes: what was declared before
\* is declared after, the codes added are among KEY_FN_F1..KEY_FN_F4 and
\* KEY_FN, and configuring the configured device again changes no key bit.
C18_ConfigureOnlyAdds ==
    IsConfigured =>
        /\ last.before.input.keybit \subseteq last.after.input.keybit
        /\ (last.after.input.keybit \ last.before.input.keybit)
               \subseteq {KEY_FN_F1, KEY_FN_F2, KEY_FN_F3, KEY_FN_F4, KEY_FN}
        /\ \A ok \in BOOLEAN :
             vulcan_input_configured(HdevName(last.hdev), last.after,
                                     SinkOfLast, ok).hi.input.keybit
                 = last.after.input.keybit

\* a device that had declared KEY_A and KEY_FN before got the four missing
\* codes added and kept the others
C18_Witness ==
    /\ IsConfigured
    /\ last.before.input.keybit = {KEY_A, KEY_FN}
    /\ last.after.input.keybit =
           {KEY_A, KEY_FN, KEY_FN_F1, KEY_FN_F2, KEY_FN_F3, KEY_FN_F4}

====
